---- MODULE Spec2Model ----
(***************************************************************************)
(* Model of the mailbox-backed flash controller MailboxFlashCtrl           *)
(* (runtime/kernel/drivers/flash/src/mm_flash_ctrl.rs): request admission, *)
(* lock acquisition and frame encoding, completion polling through the     *)
(* deferred call, and the client callbacks.                                *)
(*                                                                         *)
(* The driver code is written as operators over a machine record           *)
(*   m = [c : controller fields, r : mailbox registers, log : accesses,    *)
(*        cb : callback invoked, dropped : buffer dropped, panic]          *)
(* so that one handler is one composition of the operators of the          *)
(* functions it calls.  A client callback is client code: the handler      *)
(* stops at the callback (variable cb), the client may call back into the  *)
(* driver from there, and CallbackReturn ends it.                          *)
(***************************************************************************)
EXTENDS Integers, Sequences, FiniteSets, TLC

\* ------------------------------------------------------------------ bounds
\* Number of page buffers the client owns.
NumBufs == 2
\* Number of operations the client gets accepted in one run.
MaxOps == 2
\* Largest stride of the byte patterns the packing round trip is run on.
MaxStride == 5

\* --------------------------------------------------------------- constants
PAGE_SIZE == 256
FLASH_MAX_PAGES == (64 * 1024 * 1024) \div PAGE_SIZE
SOC_RECEIVER_AXI_USER == 1

\* Words of the mailbox SRAM window the driver addresses: two header words
\* and one page of payload.
MboxSramWords == 2 + (PAGE_SIZE \div 4)

\* FlashOperation and its discriminants (op as u32).
FlashOperation == {"ReadPage", "WritePage", "ErasePage"}
OpCode(op) == CASE op = "ReadPage" -> 1
                [] op = "WritePage" -> 2
                [] op = "ErasePage" -> 3

\* ------------------------------------------------------------------ values
\* A u32 is kept as its two 16-bit halves.
U32(n) == [hi |-> (n \div 65536) % 65536, lo |-> n % 65536]

\* A page buffer: the identity of the &'static mut and its PAGE_SIZE bytes
\* (data[i + 1] is byte i).
NoBuf == [id |-> 0, data |-> <<>>]
PatFill(v) == [i \in 1..PAGE_SIZE |-> v]
PatInc == [i \in 1..PAGE_SIZE |-> (i - 1) % 256]
PatDec == [i \in 1..PAGE_SIZE |-> 255 - ((i - 1) % 256)]
BufInit(i) == IF i % 2 = 1 THEN PatFill(170) ELSE PatInc

\* One access of the driver: a register read or write (reg "sram.." is a
\* loop over the page's words, from word i on), a controller field update,
\* or the callback.
Ev(k, reg, i) == [k |-> k, reg |-> reg, i |-> i]
NoCb == [kind |-> "none", buf |-> NoBuf, result |-> "none"]

\* ------------------------------------------------- mailbox register block
\* lock: the owner of the hardware mailbox lock.  A read of the lock
\* register returns 0 and takes the lock when it is free, and returns 1
\* when it is held.
LockReadValue(r) == IF r.lock = "none" THEN 0 ELSE 1
LockRead(r) == IF r.lock = "none" THEN [r EXCEPT !.lock = "mcu"] ELSE r

\* execute: clearing the bit while the MCU owns the lock releases the lock.
ExecuteWrite(r, v) ==
    [r EXCEPT !.execute = v,
              !.lock = IF v = 0 /\ @ = "mcu" THEN "none" ELSE @]

\* ------------------------------------------------------------------ driver
\* MailboxFlashCtrl::new
NewCtrl == [flash_client |-> FALSE,
            read_buf |-> NoBuf,
            write_buf |-> NoBuf,
            pending_op |-> "None",
            deferred_call |-> FALSE,
            mailbox_locked |-> FALSE]

Log(m, e) == [m EXCEPT !.log = Append(@, e)]

\* reset_before_use
reset_before_use(m) ==
    LET m1 == [Log(m, Ev("rd", "lock", 0)) EXCEPT !.r = LockRead(@)]
        m2 == [Log(m1, Ev("wr", "dlen", 0)) EXCEPT !.r.dlen = MboxSramWords * 4]
    IN [Log(m2, Ev("wr", "execute", 0)) EXCEPT !.r = ExecuteWrite(@, 0)]

\* acquire_lock with the test of the lock register left out.
acquire_lock_Unchecked(m) ==
    [m |-> [Log(m, Ev("rd", "lock", 0)) EXCEPT !.r = LockRead(@)], res |-> "Ok"]

\* acquire_lock
acquire_lock(m) ==
    LET v == LockReadValue(m.r)
        m1 == [Log(m, Ev("rd", "lock", 0)) EXCEPT !.r = LockRead(@)]
    IN [m |-> m1, res |-> IF v # 0 THEN "BUSY" ELSE "Ok"]

\* release_lock: execute.modify(Execute::CLEAR)
release_lock(m) ==
    LET m1 == Log(m, Ev("rd", "execute", 0))
    IN [Log(m1, Ev("wr", "execute", 0)) EXCEPT !.r = ExecuteWrite(@, 0)]

\* The word the write path builds from chunk i of the buffer:
\* word |= b << (j * 8) for byte j of the chunk.
ChunkByte(data, i, j) == IF 4 * i + j < Len(data) THEN data[4 * i + j + 1] ELSE 0
PackWord(data, i) ==
    [lo |-> ChunkByte(data, i, 0) + 256 * ChunkByte(data, i, 1),
     hi |-> ChunkByte(data, i, 2) + 256 * ChunkByte(data, i, 3)]
NumChunks(data) == (Len(data) + 3) \div 4

\* UnpackByte taking the bytes of the word from the most significant one.
UnpackByte_BigEndian(word, j) ==
    CASE j = 3 -> word.lo % 256
      [] j = 2 -> (word.lo \div 256) % 256
      [] j = 1 -> word.hi % 256
      [] j = 0 -> (word.hi \div 256) % 256

\* The byte the read path stores at buf[i * 4 + j] from word.
UnpackByte(word, j) ==
    CASE j = 0 -> word.lo % 256
      [] j = 1 -> (word.lo \div 256) % 256
      [] j = 2 -> word.hi % 256
      [] j = 3 -> (word.hi \div 256) % 256

\* The words the write loop builds from a buffer (word i is words[i + 1]),
\* and the bytes the read loop stores from a run of words.
PackPage(data) == [i \in 1..NumChunks(data) |-> PackWord(data, i - 1)]
UnpackPage(words) ==
    [k \in 1..(4 * Len(words)) |-> UnpackByte(words[((k - 1) \div 4) + 1], (k - 1) % 4)]

\* total_dlen counting the payload of a write without the two header words.
TotalDlen_PayloadOnly(op) == IF op = "WritePage" THEN PAGE_SIZE ELSE 8

\* total_dlen
TotalDlen(op) == IF op = "WritePage" THEN 4 + 4 + PAGE_SIZE ELSE 8

\* ReadWordIndex at the offset of a write's payload.
ReadWordIndex_AfterHeader(i) == 2 + i

\* Index of the SRAM word that holds chunk i of a written page, and of the
\* word the read path decodes into bytes 4i..4i+3.
WriteWordIndex(i) == 2 + i
ReadWordIndex(i) == i

SramSet(m, i, w) ==
    [Log(m, Ev("wr", "sram", i)) EXCEPT !.r.sram[i + 1] = w]

\* The write path's copy of write_buf into the SRAM (take, loop, replace).
WritePayload(m) ==
    LET data == m.c.write_buf.data
        n == NumChunks(data)
        first == WriteWordIndex(0)
    IN [m EXCEPT
          !.r.sram = [k \in 1..MboxSramWords |->
                        IF (k - 1) >= first /\ (k - 1) - first < n
                        THEN PackWord(data, (k - 1) - first)
                        ELSE @[k]],
          !.log = Append(@, Ev("wr", "sram..", first))]

\* start_mailbox_op setting the execute bit as soon as it has the lock.
start_mailbox_op_ExecuteFirst(m, op, page_number) ==
    LET a == acquire_lock(m)
    IN IF a.res # "Ok" THEN [m |-> a.m, res |-> a.res]
       ELSE
         LET m0 == [Log(Log(a.m, Ev("rd", "execute", 0)), Ev("wr", "execute", 1))
                       EXCEPT !.r = ExecuteWrite(@, 1)]
             m1 == [Log(m0, Ev("ctl", "mailbox_locked", 1))
                       EXCEPT !.c.mailbox_locked = TRUE]
             m2 == [Log(m1, Ev("ctl", "pending_op", 1)) EXCEPT !.c.pending_op = op]
             m3 == SramSet(m2, 0, U32(page_number))
             m4 == SramSet(m3, 1, U32(PAGE_SIZE))
             m5 == IF op = "WritePage" THEN WritePayload(m4) ELSE m4
             m6 == [Log(m5, Ev("wr", "dlen", 0)) EXCEPT !.r.dlen = TotalDlen(op)]
             m7 == [Log(m6, Ev("wr", "cmd", 0)) EXCEPT !.r.cmd = OpCode(op)]
             m8 == [Log(m7, Ev("wr", "target_user", 0))
                       EXCEPT !.r.target_user = SOC_RECEIVER_AXI_USER]
             m9 == [Log(m8, Ev("wr", "target_user_valid", 0))
                       EXCEPT !.r.target_user_valid = 1]
             m11 == [Log(m9, Ev("ctl", "deferred_call", 1))
                       EXCEPT !.c.deferred_call = TRUE]
         IN [m |-> m11, res |-> "Ok"]

\* start_mailbox_op
start_mailbox_op(m, op, page_number) ==
    LET a == acquire_lock(m)
    IN IF a.res # "Ok" THEN [m |-> a.m, res |-> a.res]
       ELSE
         LET m1 == [Log(a.m, Ev("ctl", "mailbox_locked", 1))
                       EXCEPT !.c.mailbox_locked = TRUE]
             m2 == [Log(m1, Ev("ctl", "pending_op", 1)) EXCEPT !.c.pending_op = op]
             m3 == SramSet(m2, 0, U32(page_number))
             m4 == SramSet(m3, 1, U32(PAGE_SIZE))
         IN IF op = "WritePage" /\ m4.c.write_buf = NoBuf
            THEN LET m5 == release_lock(m4)
                     m6 == [Log(m5, Ev("ctl", "mailbox_locked", 0))
                               EXCEPT !.c.mailbox_locked = FALSE]
                     m7 == [Log(m6, Ev("ctl", "pending_op", 0))
                               EXCEPT !.c.pending_op = "None"]
                 IN [m |-> m7, res |-> "INVAL"]
            ELSE LET m5 == IF op = "WritePage" THEN WritePayload(m4) ELSE m4
                     m6 == [Log(m5, Ev("wr", "dlen", 0)) EXCEPT !.r.dlen = TotalDlen(op)]
                     m7 == [Log(m6, Ev("wr", "cmd", 0)) EXCEPT !.r.cmd = OpCode(op)]
                     m8 == [Log(m7, Ev("wr", "target_user", 0))
                               EXCEPT !.r.target_user = SOC_RECEIVER_AXI_USER]
                     m9 == [Log(m8, Ev("wr", "target_user_valid", 0))
                               EXCEPT !.r.target_user_valid = 1]
                     m10 == [Log(Log(m9, Ev("rd", "execute", 0)), Ev("wr", "execute", 1))
                               EXCEPT !.r = ExecuteWrite(@, 1)]
                     m11 == [Log(m10, Ev("ctl", "deferred_call", 1))
                               EXCEPT !.c.deferred_call = TRUE]
                 IN [m |-> m11, res |-> "Ok"]

\* done taken from any nonzero target_status.
DoneBit_AnyStatus(target_status) == IF target_status # 0 THEN 1 ELSE 0

\* done and status of target_status
DoneBit(target_status) == (target_status \div 16) % 2
StatusField(target_status) == target_status % 16

\* StatusResult taking every nonzero status code for success.
StatusResult_Nonzero(status) == IF status # 0 THEN "Ok" ELSE "FlashError"

\* The result a completion hands to the callback for a status code.
StatusResult(status) == IF status = 2 THEN "Ok" ELSE "FlashError"

\* InvokeClient reporting successful completions only.
InvokeClient_OkOnly(m, kind, buf, result) ==
    IF m.c.flash_client /\ result = "Ok"
    THEN [Log(m, Ev("cb", kind, 0))
             EXCEPT !.cb = [kind |-> kind, buf |-> buf, result |-> result]]
    ELSE [m EXCEPT !.dropped = IF buf = NoBuf THEN @ ELSE @ \cup {buf}]

\* InvokeClient taking the client for granted: with none attached it panics.
InvokeClient_Expect(m, kind, buf, result) ==
    IF m.c.flash_client
    THEN [Log(m, Ev("cb", kind, 0))
             EXCEPT !.cb = [kind |-> kind, buf |-> buf, result |-> result]]
    ELSE [m EXCEPT !.panic = TRUE]

\* flash_client.map(|client| client.<kind>(buf, result)): with no client the
\* closure does not run and the buffer it captured is dropped.
InvokeClient(m, kind, buf, result) ==
    IF m.c.flash_client
    THEN [Log(m, Ev("cb", kind, 0))
             EXCEPT !.cb = [kind |-> kind, buf |-> buf, result |-> result]]
    ELSE [m EXCEPT !.dropped = IF buf = NoBuf THEN @ ELSE @ \cup {buf}]

\* The release of the mailbox with mailbox_locked left set.
ReleaseAndUnlock_KeepFlag(m) == release_lock(m)

\* release_lock(); mailbox_locked.set(false)
ReleaseAndUnlock(m) ==
    [Log(release_lock(m), Ev("ctl", "mailbox_locked", 0))
        EXCEPT !.c.mailbox_locked = FALSE]

\* The read path's copy of the SRAM into the buffer.
DecodePage(m, buf) ==
    LET nw == PAGE_SIZE \div 4
    IN [buf EXCEPT !.data =
          [k \in 1..Len(buf.data) |->
             IF (k - 1) < 4 * nw
             THEN UnpackByte(m.r.sram[ReadWordIndex((k - 1) \div 4) + 1], (k - 1) % 4)
             ELSE buf.data[k]]]

\* CompleteRead decoding the SRAM before it checks the data length.
CompleteRead_DecodeFirst(m, status) ==
    IF m.c.read_buf = NoBuf THEN [m EXCEPT !.panic = TRUE]
    ELSE
      LET m1 == [Log(m, Ev("ctl", "read_buf", 0)) EXCEPT !.c.read_buf = NoBuf]
          m2 == Log(m1, Ev("rd", "dlen", 0))
          buf == DecodePage(m2, m.c.read_buf)
      IN IF m2.r.dlen # PAGE_SIZE
         THEN InvokeClient(ReleaseAndUnlock(m2), "read_complete", buf, "FlashError")
         ELSE InvokeClient(ReleaseAndUnlock(Log(m2, Ev("rd", "sram..", ReadWordIndex(0)))),
                           "read_complete", buf, StatusResult(status))

\* poll_mailbox_status, ReadPage branch
CompleteRead(m, status) ==
    IF m.c.read_buf = NoBuf THEN [m EXCEPT !.panic = TRUE]
    ELSE
      LET buf == m.c.read_buf
          m1 == [Log(m, Ev("ctl", "read_buf", 0)) EXCEPT !.c.read_buf = NoBuf]
          m2 == Log(m1, Ev("rd", "dlen", 0))
          dlen == m2.r.dlen
      IN IF dlen # PAGE_SIZE
         THEN InvokeClient(ReleaseAndUnlock(m2), "read_complete", buf, "FlashError")
         ELSE LET m3 == Log(m2, Ev("rd", "sram..", ReadWordIndex(0)))
              IN InvokeClient(ReleaseAndUnlock(m3), "read_complete",
                              DecodePage(m3, buf), StatusResult(status))

\* CompleteWrite handing the buffer to the callback and leaving it in the slot.
CompleteWrite_KeepSlot(m, status) ==
    IF m.c.write_buf = NoBuf THEN [m EXCEPT !.panic = TRUE]
    ELSE InvokeClient(ReleaseAndUnlock(m), "write_complete", m.c.write_buf,
                      StatusResult(status))

\* poll_mailbox_status, WritePage branch
CompleteWrite(m, status) ==
    IF m.c.write_buf = NoBuf THEN [m EXCEPT !.panic = TRUE]
    ELSE
      LET buf == m.c.write_buf
          m1 == [Log(m, Ev("ctl", "write_buf", 0)) EXCEPT !.c.write_buf = NoBuf]
      IN InvokeClient(ReleaseAndUnlock(m1), "write_complete", buf, StatusResult(status))

\* CompleteErase invoking the callback before it releases the mailbox.
CompleteErase_CallbackFirst(m, status) ==
    ReleaseAndUnlock(InvokeClient(m, "erase_complete", NoBuf, StatusResult(status)))

\* poll_mailbox_status, ErasePage branch
CompleteErase(m, status) ==
    InvokeClient(ReleaseAndUnlock(m), "erase_complete", NoBuf, StatusResult(status))

\* poll_mailbox_status returning at once only when mailbox_locked is false.
poll_mailbox_status_LockedOnly(m) ==
    IF ~m.c.mailbox_locked THEN m
    ELSE [Log(Log(m, Ev("rd", "target_status", 0)), Ev("ctl", "deferred_call", 1))
             EXCEPT !.c.deferred_call = TRUE]

\* poll_mailbox_status giving the operation up when it reads done as 0.
poll_mailbox_status_GiveUp(m) ==
    IF ~m.c.mailbox_locked \/ m.c.pending_op = "None" THEN m
    ELSE
      LET m1 == Log(m, Ev("rd", "target_status", 0))
          status == StatusField(m1.r.target_status)
          op == m1.c.pending_op
          m2 == [Log(m1, Ev("ctl", "pending_op", 0)) EXCEPT !.c.pending_op = "None"]
      IN IF DoneBit(m1.r.target_status) = 1
         THEN CASE op = "ReadPage" -> CompleteRead(m2, status)
                [] op = "WritePage" -> CompleteWrite(m2, status)
                [] op = "ErasePage" -> CompleteErase(m2, status)
         ELSE ReleaseAndUnlock(m2)

\* poll_mailbox_status without the re-request of the deferred call.
poll_mailbox_status_NoRearm(m) ==
    IF ~m.c.mailbox_locked \/ m.c.pending_op = "None" THEN m
    ELSE
      LET m1 == Log(m, Ev("rd", "target_status", 0))
          status == StatusField(m1.r.target_status)
      IN IF DoneBit(m1.r.target_status) = 1
         THEN LET op == m1.c.pending_op
                  m2 == [Log(m1, Ev("ctl", "pending_op", 0))
                            EXCEPT !.c.pending_op = "None"]
              IN CASE op = "ReadPage" -> CompleteRead(m2, status)
                   [] op = "WritePage" -> CompleteWrite(m2, status)
                   [] op = "ErasePage" -> CompleteErase(m2, status)
         ELSE m1

\* poll_mailbox_status
poll_mailbox_status(m) ==
    IF ~m.c.mailbox_locked \/ m.c.pending_op = "None" THEN m
    ELSE
      LET m1 == Log(m, Ev("rd", "target_status", 0))
          target_status == m1.r.target_status
          done == DoneBit(target_status)
          status == StatusField(target_status)
      IN IF done = 1
         THEN LET op == m1.c.pending_op
                  m2 == [Log(m1, Ev("ctl", "pending_op", 0))
                            EXCEPT !.c.pending_op = "None"]
              IN CASE op = "ReadPage" -> CompleteRead(m2, status)
                   [] op = "WritePage" -> CompleteWrite(m2, status)
                   [] op = "ErasePage" -> CompleteErase(m2, status)
         ELSE [Log(m1, Ev("ctl", "deferred_call", 1)) EXCEPT !.c.deferred_call = TRUE]

\* Admission without the check of the controller's own state.
Admission_NoBusy(m, page_number) ==
    IF page_number >= FLASH_MAX_PAGES THEN "INVAL" ELSE "Ok"

\* Admission with the two checks in the other order.
Admission_BusyFirst(m, page_number) ==
    IF m.c.pending_op # "None" \/ m.c.mailbox_locked THEN "BUSY"
    ELSE IF page_number >= FLASH_MAX_PAGES THEN "INVAL"
    ELSE "Ok"

\* The admission checks shared by read_page, write_page and erase_page:
\* the page range first, then the controller's own state.
Admission(m, page_number) ==
    IF page_number >= FLASH_MAX_PAGES THEN "INVAL"
    ELSE IF m.c.pending_op # "None" \/ m.c.mailbox_locked THEN "BUSY"
    ELSE "Ok"

\* TakeCell::replace: the slot's previous content, if any, is dropped.
Replaced(m, old) == [m EXCEPT !.dropped = IF old = NoBuf THEN @ ELSE @ \cup {old}]

\* read_page handing the buffer back on an error without taking it out of
\* the slot.
read_page_KeepOnError(m, page_number, buf) ==
    LET adm == Admission(m, page_number)
    IN IF adm # "Ok" THEN [m |-> m, res |-> adm, buf |-> buf]
       ELSE
         LET m1 == [Replaced(m, m.c.read_buf) EXCEPT !.c.read_buf = buf]
             s == start_mailbox_op(m1, "ReadPage", page_number)
         IN IF s.res = "Ok" THEN [m |-> s.m, res |-> "Ok", buf |-> NoBuf]
            ELSE [m |-> s.m, res |-> s.res, buf |-> buf]

\* read_page
read_page(m, page_number, buf) ==
    LET adm == Admission(m, page_number)
    IN IF adm # "Ok" THEN [m |-> m, res |-> adm, buf |-> buf]
       ELSE
         LET m1 == [Replaced(m, m.c.read_buf) EXCEPT !.c.read_buf = buf]
             s == start_mailbox_op(m1, "ReadPage", page_number)
         IN IF s.res = "Ok" THEN [m |-> s.m, res |-> "Ok", buf |-> NoBuf]
            ELSE IF s.m.c.read_buf = NoBuf
            THEN [m |-> [s.m EXCEPT !.panic = TRUE], res |-> s.res, buf |-> NoBuf]
            ELSE [m |-> [s.m EXCEPT !.c.read_buf = NoBuf],
                  res |-> s.res, buf |-> s.m.c.read_buf]

\* write_page
write_page(m, page_number, buf) ==
    LET adm == Admission(m, page_number)
    IN IF adm # "Ok" THEN [m |-> m, res |-> adm, buf |-> buf]
       ELSE
         LET m1 == [Replaced(m, m.c.write_buf) EXCEPT !.c.write_buf = buf]
             s == start_mailbox_op(m1, "WritePage", page_number)
         IN IF s.res = "Ok" THEN [m |-> s.m, res |-> "Ok", buf |-> NoBuf]
            ELSE IF s.m.c.write_buf = NoBuf
            THEN [m |-> [s.m EXCEPT !.panic = TRUE], res |-> s.res, buf |-> NoBuf]
            ELSE [m |-> [s.m EXCEPT !.c.write_buf = NoBuf],
                  res |-> s.res, buf |-> s.m.c.write_buf]

\* erase_page polling the mailbox itself once the operation is armed.
erase_page_Sync(m, page_number) ==
    LET adm == Admission(m, page_number)
    IN IF adm # "Ok" THEN [m |-> m, res |-> adm, buf |-> NoBuf]
       ELSE LET s == start_mailbox_op(m, "ErasePage", page_number)
            IN [m |-> IF s.res = "Ok" THEN poll_mailbox_status(s.m) ELSE s.m,
                res |-> s.res, buf |-> NoBuf]

\* erase_page
erase_page(m, page_number) ==
    LET adm == Admission(m, page_number)
    IN IF adm # "Ok" THEN [m |-> m, res |-> adm, buf |-> NoBuf]
       ELSE LET s == start_mailbox_op(m, "ErasePage", page_number)
            IN [m |-> s.m, res |-> s.res, buf |-> NoBuf]

\* init
init(m) == reset_before_use(m)

\* set_client
set_client(m) == [m EXCEPT !.c.flash_client = TRUE]

\* handle_deferred_call with the pending bit cleared when the handler
\* returns, so that a request made by the handler itself is lost.
handle_deferred_call_ClearAfter(m) ==
    [poll_mailbox_status(m) EXCEPT !.c.deferred_call = FALSE]

\* handle_deferred_call, entered by the scheduler with the pending bit
\* cleared.
handle_deferred_call(m) == poll_mailbox_status([m EXCEPT !.c.deferred_call = FALSE])

\* ------------------------------------------------------------- environment
\* Page numbers the client asks for: the last valid one and the first one
\* out of range.
Pages == {FLASH_MAX_PAGES - 1, FLASH_MAX_PAGES}

\* What the remote side leaves in the mailbox when it serves a request:
\* a target_status value, a data length (0: dlen left as the request set
\* it), and a page packed into the SRAM from word `at` on (-1: SRAM left
\* as it is).
Resp(ts, dlen, at) == [ts |-> ts, dlen |-> dlen, at |-> at]
RemoteResponses ==
    {Resp(16 + 2, PAGE_SIZE, 0),   \* a page read, command complete
     Resp(16 + 3, PAGE_SIZE, 0),   \* a page read, command failed
     Resp(16 + 2, PAGE_SIZE, 2),   \* a page placed after the two header words
     Resp(16 + 2, 0, -1),          \* command complete, nothing returned
     Resp(16 + 3, 0, -1),          \* command failed, nothing returned
     Resp(2, 0, -1)}               \* a status code without the done bit
RemoteSram(sram, at) ==
    IF at < 0 THEN sram
    ELSE [k \in 1..MboxSramWords |->
            IF (k - 1) >= at /\ (k - 1) - at < PAGE_SIZE \div 4
            THEN PackWord(PatDec, (k - 1) - at)
            ELSE sram[k]]

VARIABLES
    ctrl,          \* the MailboxFlashCtrl fields
    regs,          \* the mailbox registers
    cb,            \* the client callback being run, or NoCb
    panicked,      \* a panic! was reached
    inited,        \* init() has run
    client_bufs,   \* the page buffers the client holds
    dropped,       \* the page buffers dropped without being handed back
    served,        \* the remote has set done for the current execute
    flight,        \* the accepted operation not yet completed, or NoFlight
    hist,          \* per accepted operation: callbacks invoked, done observed
    last,          \* the last step: call, arguments, result, accesses
    codec          \* the packing round trip of one page, run on its own

vars == <<ctrl, regs, cb, panicked, inited, client_bufs, dropped, served, flight,
          hist, last, codec>>

\* An accepted operation: its kind, the buffer handed in with it, whether
\* it was accepted from inside a callback, and its page number.
NoFlight == [op |-> "None", buf |-> NoBuf, nested |-> FALSE, page |-> 0]

Mach == [c |-> ctrl, r |-> regs, log |-> <<>>, cb |-> NoCb, dropped |-> {},
         panic |-> FALSE]

HasEv(log, e) == \E k \in 1..Len(log) : log[k] = e

\* The record of a driver step: the call and its arguments, what it
\* returned, the machine's accesses, the callback it invoked, and, for a
\* deferred call, what it found (the operation in flight, target_status,
\* dlen, whether a client was attached) and whether it took the done branch.
Step(call, page, arg, op, res, ret, m, found) ==
    [call |-> call, page |-> page, arg |-> arg, op |-> op, res |-> res, ret |-> ret,
     in_cb |-> (cb # NoCb), log |-> m.log, cb |-> m.cb,
     done |-> (HasEv(m.log, Ev("rd", "target_status", 0))
                 /\ HasEv(m.log, Ev("ctl", "pending_op", 0))),
     ts |-> found.ts, dlen |-> found.dlen, client |-> found.client,
     flight |-> found.flight]

NotFound == [ts |-> 0, dlen |-> 0, client |-> FALSE, flight |-> NoFlight]
Found == [ts |-> regs.target_status, dlen |-> regs.dlen, client |-> ctrl.flash_client,
          flight |-> flight]

EnvStep(call) ==
    [call |-> call, page |-> 0, arg |-> NoBuf, op |-> "None", res |-> "none",
     ret |-> NoBuf, in_cb |-> (cb # NoCb), log |-> <<>>, cb |-> NoCb, done |-> FALSE,
     ts |-> 0, dlen |-> 0, client |-> FALSE, flight |-> NoFlight]

AdmissionCalls == {"read_page", "write_page", "erase_page"}

InFlight == ctrl.pending_op # "None" \/ ctrl.mailbox_locked
Idle == /\ ctrl.pending_op = "None"
        /\ ~ctrl.mailbox_locked
        /\ ctrl.read_buf = NoBuf
        /\ ctrl.write_buf = NoBuf

\* The packing round trip: a page, the words packed from it, the bytes
\* unpacked from them.
NoCodec == [pc |-> "off", page |-> <<>>, words |-> <<>>, out |-> <<>>]

Init ==
    /\ ctrl = NewCtrl
    /\ regs = [lock |-> "none", dlen |-> 0, cmd |-> 0, target_user |-> 0,
               target_user_valid |-> 0, execute |-> 0, target_status |-> 0,
               sram |-> [k \in 1..MboxSramWords |-> U32(0)]]
    /\ cb = NoCb
    /\ panicked = FALSE
    /\ inited = FALSE
    /\ client_bufs = {[id |-> i, data |-> BufInit(i)] : i \in 1..NumBufs}
    /\ dropped = {}
    /\ served = FALSE
    /\ flight = NoFlight
    /\ hist = <<>>
    /\ last = EnvStep("new")
    /\ codec = NoCodec

\* (The actions bind the machine a handler returns with \E over a singleton,
\* so that the handler is evaluated once per step.)
\* The effect of a driver step that ran from the machine Mach to m and
\* returned res and the buffer ret: the controller and the registers as it
\* left them; the buffer it handed back, and the buffer of the callback it
\* invoked, with the client; a new entry of hist when an operation was
\* accepted; the callback and the done branch counted for the operation
\* they belong to.
Commit(st, arg, m) ==
    LET accepted == st.call \in AdmissionCalls /\ st.res = "Ok"
        hist1 == IF accepted
                 THEN Append(hist, [cbs |-> 0, done |-> FALSE, client |-> FALSE])
                 ELSE hist
        flight1 == IF accepted
                   THEN [op |-> st.op, buf |-> arg, nested |-> (cb # NoCb),
                         page |-> st.page]
                   ELSE flight
        n == Len(hist1)
        back == {b \in {st.ret, m.cb.buf} : b # NoBuf}
    IN /\ ctrl' = m.c
       /\ regs' = m.r
       /\ cb' = IF m.cb # NoCb THEN m.cb ELSE cb
       /\ panicked' = (panicked \/ m.panic)
       /\ client_bufs' = (client_bufs \ {arg}) \cup back
       /\ dropped' = dropped \cup m.dropped
       /\ served' = IF accepted THEN FALSE ELSE served
       /\ flight' = IF st.done THEN NoFlight ELSE flight1
       /\ hist' = IF n = 0 THEN hist1
                  ELSE [hist1 EXCEPT ![n] =
                          [@ EXCEPT !.cbs = @ + (IF m.cb = NoCb THEN 0 ELSE 1),
                                    !.done = (@ \/ st.done),
                                    !.client = IF st.done THEN ctrl.flash_client ELSE @]]
       /\ last' = st
       /\ codec' = codec

\* The client calls only after init(), and does not repeat a call that was
\* just rejected before something else has happened (a rejected call leaves
\* everything as it was).
CanCall ==
    /\ inited
    /\ ~panicked
    /\ Len(hist) < MaxOps
    /\ last.res \notin {"BUSY", "INVAL"}

ReadPage(page, buf) ==
    /\ CanCall
    /\ \E out \in {read_page(Mach, page, buf)} :
          Commit(Step("read_page", page, buf, "ReadPage", out.res, out.buf, out.m,
                      NotFound), buf, out.m)
    /\ UNCHANGED inited

WritePage(page, buf) ==
    /\ CanCall
    /\ \E out \in {write_page(Mach, page, buf)} :
          Commit(Step("write_page", page, buf, "WritePage", out.res, out.buf, out.m,
                      NotFound), buf, out.m)
    /\ UNCHANGED inited

ErasePage(page) ==
    /\ CanCall
    /\ \E out \in {erase_page(Mach, page)} :
          Commit(Step("erase_page", page, NoBuf, "ErasePage", out.res, out.buf, out.m,
                      NotFound), NoBuf, out.m)
    /\ UNCHANGED inited

DoInit ==
    /\ ~inited
    /\ \E m \in {init(Mach)} :
          Commit(Step("init", 0, NoBuf, "None", "none", NoBuf, m, NotFound), NoBuf, m)
    /\ inited' = TRUE

SetClient ==
    /\ ~ctrl.flash_client
    /\ \E m \in {set_client(Mach)} :
          Commit(Step("set_client", 0, NoBuf, "None", "none", NoBuf, m, NotFound),
                 NoBuf, m)
    /\ UNCHANGED inited

\* The scheduler services the pending deferred call, outside any callback.
HandleDeferredCall ==
    /\ ctrl.deferred_call
    /\ cb = NoCb
    /\ ~panicked
    /\ \E m \in {handle_deferred_call(Mach)} :
          Commit(Step("handle_deferred_call", 0, NoBuf, ctrl.pending_op, "none", NoBuf,
                      m, Found), NoBuf, m)
    /\ UNCHANGED inited

\* The client returns from its callback.
CallbackReturn ==
    /\ cb # NoCb
    /\ cb' = NoCb
    /\ last' = EnvStep("callback_return")
    /\ UNCHANGED <<ctrl, regs, panicked, inited, client_bufs, dropped, served, flight, hist,
                 codec>>

\* The remote receiver serves the request the MCU armed.
RemoteRespond(resp) ==
    /\ regs.execute = 1
    /\ regs.lock = "mcu"
    /\ ~served
    /\ regs' = [regs EXCEPT !.target_status = resp.ts,
                            !.dlen = IF resp.dlen = 0 THEN @ ELSE resp.dlen,
                            !.sram = RemoteSram(@, resp.at)]
    /\ served' = (DoneBit(resp.ts) = 1)
    /\ last' = EnvStep("remote")
    /\ UNCHANGED <<ctrl, cb, panicked, inited, client_bufs, dropped, flight, hist, codec>>

\* The hardware clears target_status some time after the lock was released.
StatusCleared ==
    /\ regs.execute = 0
    /\ regs.target_status # 0
    /\ regs' = [regs EXCEPT !.target_status = 0]
    /\ last' = EnvStep("status_cleared")
    /\ UNCHANGED <<ctrl, cb, panicked, inited, client_bufs, dropped, served, flight, hist,
                 codec>>

\* A peer takes the free hardware lock, and gives it back.
PeerAcquire ==
    /\ regs.lock = "none"
    /\ regs' = [regs EXCEPT !.lock = "peer"]
    /\ last' = EnvStep("peer_acquire")
    /\ UNCHANGED <<ctrl, cb, panicked, inited, client_bufs, dropped, served, flight, hist,
                 codec>>

PeerRelease ==
    /\ regs.lock = "peer"
    /\ regs' = [regs EXCEPT !.lock = "none"]
    /\ last' = EnvStep("peer_release")
    /\ UNCHANGED <<ctrl, cb, panicked, inited, client_bufs, dropped, served, flight, hist,
                 codec>>

Next ==
    \/ DoInit
    \/ SetClient
    \/ \E page \in Pages : \E buf \in client_bufs : ReadPage(page, buf)
    \/ \E page \in Pages : \E buf \in client_bufs : WritePage(page, buf)
    \/ \E page \in Pages : ErasePage(page)
    \/ HandleDeferredCall
    \/ CallbackReturn
    \/ \E resp \in RemoteResponses : RemoteRespond(resp)
    \/ StatusCleared
    \/ PeerAcquire
    \/ PeerRelease

Spec == Init /\ [][Next]_vars

\* Deferred calls are serviced and callbacks return.
FairSpec == Spec /\ WF_vars(HandleDeferredCall) /\ WF_vars(CallbackReturn)

\* The packing round trip on its own: a page of a byte pattern is packed
\* into words as the write loop packs it, and the words are unpacked as the
\* read loop unpacks them.
CodecOffsets == {0, 1, 2, 3, 85, 170, 255}
CodecPage(a, b) == [k \in 1..PAGE_SIZE |-> (a * (k - 1) + b) % 256]
CodecPages == {CodecPage(a, b) : a \in 0..MaxStride, b \in CodecOffsets}

CodecInit ==
    /\ ctrl = NewCtrl
    /\ regs = [lock |-> "none", dlen |-> 0, cmd |-> 0, target_user |-> 0,
               target_user_valid |-> 0, execute |-> 0, target_status |-> 0,
               sram |-> [k \in 1..MboxSramWords |-> U32(0)]]
    /\ cb = NoCb
    /\ panicked = FALSE
    /\ inited = FALSE
    /\ client_bufs = {}
    /\ dropped = {}
    /\ served = FALSE
    /\ flight = NoFlight
    /\ hist = <<>>
    /\ last = EnvStep("new")
    /\ codec \in {[pc |-> "page", page |-> p, words |-> <<>>, out |-> <<>>] :
                     p \in CodecPages}

CodecPack ==
    /\ codec.pc = "page"
    /\ codec' = [codec EXCEPT !.pc = "words", !.words = PackPage(codec.page)]
    /\ UNCHANGED <<ctrl, regs, cb, panicked, inited, client_bufs, dropped, served,
                   flight, hist, last>>

CodecUnpack ==
    /\ codec.pc = "words"
    /\ codec' = [codec EXCEPT !.pc = "out", !.out = UnpackPage(codec.words)]
    /\ UNCHANGED <<ctrl, regs, cb, panicked, inited, client_bufs, dropped, served,
                   flight, hist, last>>

CodecNext == CodecPack \/ CodecUnpack

CodecSpec == CodecInit /\ [][CodecNext]_vars

\* The deferred call entered with no operation to poll: the handler is run
\* once from every combination of controller fields with mailbox_locked
\* false or pending_op empty, over registers in several conditions.
StaleBufs(i) == {NoBuf, [id |-> i, data |-> BufInit(i)]}
StaleCtrls ==
    {c \in [flash_client : BOOLEAN,
            read_buf : StaleBufs(1),
            write_buf : StaleBufs(2),
            pending_op : FlashOperation \cup {"None"},
            deferred_call : BOOLEAN,
            mailbox_locked : BOOLEAN] :
        ~c.mailbox_locked \/ c.pending_op = "None"}
StaleRegs ==
    {[lock |-> l, dlen |-> PAGE_SIZE, cmd |-> 1, target_user |-> SOC_RECEIVER_AXI_USER,
      target_user_valid |-> 1, execute |-> e, target_status |-> ts,
      sram |-> [k \in 1..MboxSramWords |-> U32(0)]] :
        l \in {"none", "mcu", "peer"}, e \in {0, 1}, ts \in {0, 16 + 2}}

StaleInit ==
    /\ ctrl \in StaleCtrls
    /\ regs \in StaleRegs
    /\ cb = NoCb
    /\ panicked = FALSE
    /\ inited = TRUE
    /\ client_bufs = {}
    /\ dropped = {}
    /\ served = FALSE
    /\ flight = NoFlight
    /\ hist = <<>>
    /\ last = EnvStep("new")
    /\ codec = NoCodec

StaleReentry ==
    /\ last.call = "new"
    /\ \E m \in {handle_deferred_call(Mach)} :
          Commit(Step("handle_deferred_call", 0, NoBuf, ctrl.pending_op, "none", NoBuf,
                      m, Found), NoBuf, m)
    /\ UNCHANGED inited

StaleNext == StaleReentry

StaleSpec == StaleInit /\ [][StaleNext]_vars

TypeOK ==
    /\ ctrl.pending_op \in FlashOperation \cup {"None"}
    /\ regs.lock \in {"none", "mcu", "peer"}
    /\ regs.execute \in {0, 1}
    /\ Len(hist) <= MaxOps
    /\ ~panicked

\* ------------------------------------------------------------------ claims
CallbackOf(op) == CASE op = "ReadPage" -> "read_complete"
                    [] op = "WritePage" -> "write_complete"
                    [] op = "ErasePage" -> "erase_complete"
                    [] OTHER -> "none"

\* The step just taken was a deferred call that took the done branch.
Completed == last.call = "handle_deferred_call" /\ last.done

\* The log holds a register access of kind k ("rd" or "wr").
Accesses(log, k) == \E i \in 1..Len(log) : log[i].k = k

\* C1 as stated: every accepted operation has its callback invoked at most
\* once, and exactly once as soon as a deferred call has observed done.
C1_OnceWheneverDone ==
    \A i \in 1..Len(hist) :
        /\ hist[i].cbs <= 1
        /\ hist[i].done => hist[i].cbs = 1

\* C1 amended: every accepted operation has its matching callback invoked at
\* most once, never before done is observed, and exactly once when done is
\* observed while a client is attached; with no client attached at that
\* moment no callback is invoked at all.
C1_ExactlyOnceWithClient ==
    /\ \A i \in 1..Len(hist) :
         /\ hist[i].cbs <= 1
         /\ ~hist[i].done => hist[i].cbs = 0
         /\ hist[i].done => hist[i].cbs = (IF hist[i].client THEN 1 ELSE 0)
    /\ last.cb # NoCb => last.cb.kind = CallbackOf(last.op)

C1_Witness ==
    /\ Len(hist) = 2
    /\ hist[1].done /\ hist[1].cbs = 1
    /\ hist[2].done /\ hist[2].cbs = 1

\* C2: an admission call with a valid page number made while an operation
\* is in flight returns BUSY with the caller's buffer, accesses no register,
\* and leaves the controller, the registers, the callback state and the
\* record of accepted operations as they were.
C2_BusyWhileInFlight ==
    [][(/\ InFlight
        /\ last'.call \in AdmissionCalls
        /\ last'.page < FLASH_MAX_PAGES)
       => (/\ last'.res = "BUSY"
           /\ last'.ret = last'.arg
           /\ last'.log = <<>>
           /\ last'.cb = NoCb
           /\ ctrl' = ctrl
           /\ regs' = regs
           /\ cb' = cb
           /\ hist' = hist
           /\ client_bufs' = client_bufs
           /\ dropped' = dropped)]_vars

C2_Witness ==
    /\ InFlight
    /\ last.call = "write_page"
    /\ last.res = "BUSY"
    /\ last.log = <<>>
    /\ last.ret = last.arg
    /\ last.arg # NoBuf

\* C3: an admission call with page_number >= FLASH_MAX_PAGES returns INVAL
\* with the caller's buffer, in flight or not, accesses no register and
\* leaves the controller and the registers as they were.
C3_InvalidPage ==
    [][(/\ last'.call \in AdmissionCalls
        /\ last'.page >= FLASH_MAX_PAGES)
       => (/\ last'.res = "INVAL"
           /\ last'.ret = last'.arg
           /\ last'.log = <<>>
           /\ last'.cb = NoCb
           /\ ctrl' = ctrl
           /\ regs' = regs
           /\ cb' = cb
           /\ hist' = hist
           /\ client_bufs' = client_bufs
           /\ dropped' = dropped)]_vars

C3_Witness ==
    /\ InFlight
    /\ last.call = "read_page"
    /\ last.page >= FLASH_MAX_PAGES
    /\ last.res = "INVAL"
    /\ last.ret = last.arg
    /\ last.arg # NoBuf

\* C4: an admission call with a valid page number made while the controller
\* is Idle and the lock register reads nonzero returns BUSY with the
\* caller's buffer, writes no register, requests no deferred call, and
\* leaves the controller Idle and the registers as they were.
C4_HardwareLockHeld ==
    [][(/\ Idle
        /\ LockReadValue(regs) # 0
        /\ last'.call \in AdmissionCalls
        /\ last'.page < FLASH_MAX_PAGES)
       => (/\ last'.res = "BUSY"
           /\ last'.ret = last'.arg
           /\ ~Accesses(last'.log, "wr")
           /\ ~HasEv(last'.log, Ev("ctl", "deferred_call", 1))
           /\ Idle'
           /\ ctrl' = ctrl
           /\ regs' = regs
           /\ hist' = hist
           /\ client_bufs' = client_bufs
           /\ dropped' = dropped)]_vars

C4_Witness ==
    /\ Idle
    /\ regs.lock = "peer"
    /\ last.call = "read_page"
    /\ last.res = "BUSY"
    /\ last.log = <<Ev("rd", "lock", 0)>>
    /\ last.ret = last.arg
    /\ last.arg # NoBuf

\* C5 as stated: when a deferred call observes done and invokes the
\* callback, the result is success exactly when the status code is 2.
C5_OkIffStatus2 ==
    Completed /\ last.cb # NoCb
       => (last.cb.result = "Ok" <=> StatusField(last.ts) = 2)

\* C5 amended: when a deferred call observes done and invokes the callback,
\* the result is success exactly when the status code is 2 and, for a read,
\* the data-length register equals PAGE_SIZE; it is a flash error otherwise.
C5_OkIffStatus2AndLength ==
    Completed /\ last.cb # NoCb
       => /\ last.cb.result \in {"Ok", "FlashError"}
          /\ last.cb.result = "Ok"
               <=> (/\ StatusField(last.ts) = 2
                    /\ (last.op = "ReadPage" => last.dlen = PAGE_SIZE))

C5_Witness ==
    /\ Completed
    /\ last.op = "ReadPage"
    /\ last.cb.kind = "read_complete"
    /\ last.cb.result = "Ok"
    /\ StatusField(last.ts) = 2

\* The position of the first occurrence of event e in log (0: none).
Pos(log, e) ==
    IF HasEv(log, e)
    THEN CHOOSE k \in 1..Len(log) : log[k] = e /\ \A j \in 1..(k - 1) : log[j] # e
    ELSE 0

\* C6 as stated: a read completion that finds dlen # PAGE_SIZE invokes
\* read_complete once, with a flash error and the buffer as the caller
\* handed it in, decodes no SRAM word, and leaves the controller Idle with
\* the execute bit cleared.
C6_LengthMismatch ==
    Completed /\ last.op = "ReadPage" /\ last.dlen # PAGE_SIZE
       => /\ last.cb = [kind |-> "read_complete", buf |-> last.flight.buf,
                        result |-> "FlashError"]
          /\ hist[Len(hist)].cbs = 1
          /\ ~HasEv(last.log, Ev("rd", "sram..", ReadWordIndex(0)))
          /\ Idle
          /\ regs.execute = 0

\* C6 amended: a read completion that finds dlen # PAGE_SIZE decodes no SRAM
\* word and leaves the controller Idle with the execute bit cleared; when a
\* client is attached it invokes read_complete once, with a flash error and
\* the buffer as the caller handed it in, and with no client attached it
\* invokes no callback.
C6_LengthMismatchWithClient ==
    Completed /\ last.op = "ReadPage" /\ last.dlen # PAGE_SIZE
       => /\ last.client =>
               /\ last.cb = [kind |-> "read_complete", buf |-> last.flight.buf,
                             result |-> "FlashError"]
               /\ hist[Len(hist)].cbs = 1
          /\ ~last.client => last.cb = NoCb /\ hist[Len(hist)].cbs = 0
          /\ ~HasEv(last.log, Ev("rd", "sram..", ReadWordIndex(0)))
          /\ Idle
          /\ regs.execute = 0

C6_Witness ==
    /\ Completed
    /\ last.op = "ReadPage"
    /\ last.dlen # PAGE_SIZE
    /\ StatusField(last.ts) = 2
    /\ last.cb.result = "FlashError"
    /\ last.cb.buf = last.flight.buf
    /\ last.flight.buf # NoBuf

\* In the accesses of a completion, pending_op is cleared before the execute
\* bit, the execute bit before mailbox_locked, and the callback comes last;
\* the completion leaves the controller Idle and the mailbox released.
C7_Order ==
    Completed =>
       /\ 0 < Pos(last.log, Ev("ctl", "pending_op", 0))
       /\ Pos(last.log, Ev("ctl", "pending_op", 0)) < Pos(last.log, Ev("wr", "execute", 0))
       /\ Pos(last.log, Ev("wr", "execute", 0))
             < Pos(last.log, Ev("ctl", "mailbox_locked", 0))
       /\ last.cb # NoCb =>
             /\ Pos(last.log, Ev("cb", last.cb.kind, 0)) = Len(last.log)
             /\ Pos(last.log, Ev("ctl", "mailbox_locked", 0)) < Len(last.log)
       /\ Idle
       /\ regs.execute = 0
       /\ regs.lock # "mcu"

\* An admission call with a valid page made from inside a callback while the
\* controller is Idle is accepted, unless the lock register reads nonzero.
C7_NestedAccepted ==
    (/\ cb # NoCb
     /\ Idle
     /\ last'.call \in AdmissionCalls
     /\ last'.page < FLASH_MAX_PAGES)
    => \/ last'.res = "Ok"
       \/ /\ last'.res = "BUSY"
          /\ LockReadValue(regs) # 0
          /\ HasEv(last'.log, Ev("rd", "lock", 0))

\* An operation accepted from inside a callback gets its own callback when
\* its done is observed.
C7_NestedCompleted ==
    (Completed /\ last.flight.nested /\ last.client)
       => last.cb.kind = CallbackOf(last.flight.op) /\ hist[Len(hist)].cbs = 1

\* C7: a completion clears pending_op, then the execute bit, then
\* mailbox_locked, and invokes the callback last; the controller is Idle
\* when the callback starts; an admission call with a valid page made from
\* inside the callback while the controller is Idle is not rejected by the
\* controller's own state (it is accepted unless the hardware lock register
\* reads nonzero); and an operation accepted from inside a callback is
\* completed with its own callback once done is observed.
C7_ReleaseBeforeCallback ==
    /\ [](C7_Order /\ C7_NestedCompleted)
    /\ [][C7_NestedAccepted]_vars

C7_Witness ==
    /\ Completed
    /\ last.cb # NoCb
    /\ last.flight.nested
    /\ hist[Len(hist)].cbs = 1

\* The number of places that hold buffer id: the client, the two slots and,
\* when counted, the buffers dropped.
Held(id, withDropped) ==
    Cardinality({b \in client_bufs : b.id = id})
      + (IF ctrl.read_buf.id = id THEN 1 ELSE 0)
      + (IF ctrl.write_buf.id = id THEN 1 ELSE 0)
      + (IF withDropped THEN Cardinality({b \in dropped : b.id = id}) ELSE 0)

SlotOf(op) == CASE op = "ReadPage" -> ctrl.read_buf
                [] op = "WritePage" -> ctrl.write_buf
                [] OTHER -> NoBuf

\* A rejected read_page or write_page hands back the buffer it was given; an
\* accepted one keeps it in the slot of its kind, where it stays, and in no
\* other place, until the completion; the callback hands back that buffer.
BufferPath ==
    /\ (last.call \in {"read_page", "write_page"} /\ last.res # "Ok")
          => last.ret = last.arg /\ last.arg \in client_bufs
    /\ (last.call \in {"read_page", "write_page"} /\ last.res = "Ok")
          => last.ret = NoBuf /\ SlotOf(last.op) = last.arg
    /\ flight.buf # NoBuf
          => /\ SlotOf(flight.op) = flight.buf
             /\ Held(flight.buf.id, TRUE) = 1
    /\ (Completed /\ last.cb # NoCb /\ last.op # "ErasePage")
          => /\ last.cb.buf.id = last.flight.buf.id
             /\ last.cb.buf \in client_bufs
             /\ last.op = "WritePage" => last.cb.buf = last.flight.buf

\* C8 as stated: every buffer is at all times with the client or in exactly
\* one slot of the controller, and is handed back by the rejected call or
\* by the completion callback.
C8_NeverLost ==
    /\ \A id \in 1..NumBufs : Held(id, FALSE) = 1
    /\ BufferPath
    /\ dropped = {}

\* A buffer is dropped only by a completion observed while no client is
\* attached, and it is the buffer of the completed operation.
C8_DroppedOnlyWithoutClient ==
    dropped' # dropped
       => /\ last'.call = "handle_deferred_call"
          /\ last'.done
          /\ ~last'.client
          /\ last'.flight.buf # NoBuf
          /\ dropped \subseteq dropped'
          /\ \A b \in dropped' \ dropped : b.id = last'.flight.buf.id

\* C8 amended: every buffer is at all times in exactly one place: with the
\* client, in one slot of the controller, or dropped; it is handed back by
\* the rejected call or by the completion callback; and it is dropped only
\* by a completion observed while no client is attached.
C8_NeverLostWithClient ==
    /\ [](BufferPath /\ \A id \in 1..NumBufs : Held(id, TRUE) = 1)
    /\ [][C8_DroppedOnlyWithoutClient]_vars

C8_Witness ==
    /\ Len(hist) = 2
    /\ hist[1].cbs = 1
    /\ Completed /\ last.op = "WritePage" /\ last.cb.buf = last.flight.buf
    /\ hist[2].cbs = 1
    /\ \A id \in 1..NumBufs : Cardinality({b \in client_bufs : b.id = id}) = 1

\* C9: an admission call made from outside a callback invokes no callback
\* and returns Ok, BUSY or INVAL; every callback is invoked by a deferred
\* call.
C9_CallbackOnlyDeferred ==
    /\ (last.call \in AdmissionCalls /\ ~last.in_cb)
          => /\ last.cb = NoCb
             /\ cb = NoCb
             /\ \A k \in 1..Len(last.log) : last.log[k].k # "cb"
             /\ last.res \in {"Ok", "BUSY", "INVAL"}
    /\ last.cb # NoCb => last.call = "handle_deferred_call"
    /\ cb # NoCb => cb.kind \in {"read_complete", "write_complete", "erase_complete"}

\* An operation accepted from outside a callback while target_status still
\* shows done.
C9_Witness ==
    /\ last.call = "erase_page"
    /\ ~last.in_cb
    /\ last.res = "Ok"
    /\ DoneBit(regs.target_status) = 1
    /\ last.cb = NoCb

\* C10 as stated: under fair servicing of deferred calls, once the remote
\* has set done for the operation in flight, its callback is eventually
\* invoked and the controller is Idle again.
C10_EventuallyCallback ==
    \A i \in 1..MaxOps :
        (Len(hist) = i /\ served /\ InFlight)
           ~> (Len(hist) = i /\ hist[i].done /\ hist[i].cbs = 1 /\ Idle)

\* C10 amended: under fair servicing of deferred calls, once the remote has
\* set done for the operation in flight, the done bit is eventually observed
\* and the controller is Idle again, with the operation's callback invoked
\* if a client is attached when done is observed.
C10_EventuallyIdle ==
    \A i \in 1..MaxOps :
        (Len(hist) = i /\ served /\ InFlight)
           ~> (/\ Len(hist) = i
               /\ hist[i].done
               /\ hist[i].cbs = (IF hist[i].client THEN 1 ELSE 0)
               /\ Idle)

C10_Witness ==
    /\ Completed
    /\ served
    /\ hist[Len(hist)].cbs = 1
    /\ Idle

\* A step taken while an operation is in flight and target_status shows
\* done = 0 leaves the operation in flight: pending_op, mailbox_locked, the
\* slots and the execute bit stay as they are, no callback is invoked, a
\* deferred call requests the next one, and an admission call with a valid
\* page is rejected with BUSY.
C11_StaysArmed ==
    (/\ ctrl.pending_op # "None"
     /\ ctrl.mailbox_locked
     /\ (regs.target_status \div 16) % 2 = 0)
    => /\ ctrl'.pending_op = ctrl.pending_op
       /\ ctrl'.mailbox_locked
       /\ ctrl'.read_buf = ctrl.read_buf
       /\ ctrl'.write_buf = ctrl.write_buf
       /\ regs'.execute = regs.execute
       /\ last'.cb = NoCb
       /\ cb' \in {cb, NoCb}
       /\ hist' = hist
       /\ last'.call = "handle_deferred_call"
             => /\ ctrl'.deferred_call
                /\ HasEv(last'.log, Ev("ctl", "deferred_call", 1))
       /\ (last'.call \in AdmissionCalls /\ last'.page < FLASH_MAX_PAGES)
             => last'.res = "BUSY"

\* While an operation is in flight a deferred call is always requested.
C11_AlwaysPolling ==
    (ctrl.pending_op # "None" /\ ctrl.mailbox_locked) => ctrl.deferred_call

C12_PackUnpackRoundTrip ==
    /\ codec.pc \in {"words", "out"}
          => /\ Len(codec.page) = PAGE_SIZE
             /\ Len(codec.words) = PAGE_SIZE \div 4
             /\ \A i \in 1..Len(codec.words) :
                   /\ codec.words[i].lo
                        = codec.page[4 * i - 3] + 256 * codec.page[4 * i - 2]
                   /\ codec.words[i].hi
                        = codec.page[4 * i - 1] + 256 * codec.page[4 * i]
    /\ codec.pc = "out" => codec.out = codec.page

\* A page that holds every byte value, packed and unpacked.
C12_Witness ==
    /\ codec.pc = "out"
    /\ codec.page = CodecPage(1, 3)
    /\ codec.out = codec.page
    /\ {codec.page[k] : k \in 1..PAGE_SIZE} = 0..255

\* C13: when an admission call has returned Ok the mailbox holds the request
\* frame of the operation: SRAM word 0 is the page number and word 1 is
\* PAGE_SIZE; for a write, words 2.. are the buffer packed four bytes to a
\* word, least significant byte first; the data length is 8 for a read or
\* an erase and 8 + PAGE_SIZE for a write; the command is 1 for a read, 2
\* for a write and 3 for an erase; the target user is 1 and marked valid;
\* and the execute bit is set.
C13_RequestFrame ==
    (last.call \in AdmissionCalls /\ last.res = "Ok") =>
       /\ regs.sram[1] = U32(last.page)
       /\ regs.sram[2] = U32(PAGE_SIZE)
       /\ last.call = "write_page" =>
             \A i \in 0..((PAGE_SIZE \div 4) - 1) :
                /\ regs.sram[3 + i].lo
                     = last.arg.data[4 * i + 1] + 256 * last.arg.data[4 * i + 2]
                /\ regs.sram[3 + i].hi
                     = last.arg.data[4 * i + 3] + 256 * last.arg.data[4 * i + 4]
       /\ regs.dlen = (IF last.call = "write_page" THEN 8 + PAGE_SIZE ELSE 8)
       /\ regs.cmd = (CASE last.call = "read_page" -> 1
                        [] last.call = "write_page" -> 2
                        [] last.call = "erase_page" -> 3)
       /\ regs.target_user = 1
       /\ regs.target_user_valid = 1
       /\ regs.execute = 1

\* A write of a page of ascending bytes accepted after an earlier operation
\* left its own frame in the mailbox.
C13_Witness ==
    /\ Len(hist) = 2
    /\ last.call = "write_page"
    /\ last.res = "Ok"
    /\ last.arg.data = PatInc
    /\ regs.dlen = 8 + PAGE_SIZE
    /\ regs.sram[4] = [hi |-> 7 * 256 + 6, lo |-> 5 * 256 + 4]

\* C14: a deferred call that finds an operation in flight and reads bit 4
\* of target_status as 0 invokes no callback, writes no register (the
\* execute bit stays set), leaves mailbox_locked, pending_op and both slots
\* as they are, and requests one further deferred call: its accesses are
\* the read of target_status and the one request.  It holds for every such
\* call, whatever came before it.
C14_NotDonePoll ==
    [][(/\ ctrl.mailbox_locked
        /\ ctrl.pending_op # "None"
        /\ (regs.target_status \div 16) % 2 = 0
        /\ last'.call = "handle_deferred_call")
       => (/\ last'.cb = NoCb
           /\ cb' = cb
           /\ regs' = regs
           /\ regs'.execute = 1
           /\ ctrl' = [ctrl EXCEPT !.deferred_call = TRUE]
           /\ last'.log = <<Ev("rd", "target_status", 0), Ev("ctl", "deferred_call", 1)>>
           /\ hist' = hist
           /\ client_bufs' = client_bufs
           /\ dropped' = dropped)]_vars

\* A read polled after the remote has written a status code without the
\* done bit.
C14_Witness ==
    /\ last.call = "handle_deferred_call"
    /\ ~last.done
    /\ last.ts = 2
    /\ last.log = <<Ev("rd", "target_status", 0), Ev("ctl", "deferred_call", 1)>>
    /\ ctrl.pending_op = "ReadPage"
    /\ ctrl.read_buf # NoBuf
    /\ ctrl.mailbox_locked
    /\ regs.execute = 1

\* C15: in every state between two handlers, the state in which a callback
\* runs included, pending_op is set exactly when mailbox_locked is true,
\* and then the execute bit is set: it was set when this controller
\* accepted the operation pending_op names, and has not been cleared.
C15_PendingIffLocked ==
    /\ (ctrl.pending_op # "None") <=> ctrl.mailbox_locked
    /\ ctrl.mailbox_locked
          => /\ regs.execute = 1
             /\ flight.op = ctrl.pending_op
             /\ ~hist[Len(hist)].done

\* An operation accepted from inside a callback, while the callback runs.
C15_Witness ==
    /\ cb # NoCb
    /\ last.call \in AdmissionCalls
    /\ last.res = "Ok"
    /\ ctrl.pending_op # "None"
    /\ ctrl.mailbox_locked
    /\ regs.execute = 1

\* C16: in every state between two handlers the read slot holds a buffer
\* exactly when pending_op is a read and the write slot holds one exactly
\* when pending_op is a write; both slots are empty while no operation is
\* pending and during an erase; and the two slots are never both full.
C16_SlotsMatchPending ==
    /\ (ctrl.read_buf # NoBuf) <=> (ctrl.pending_op = "ReadPage")
    /\ (ctrl.write_buf # NoBuf) <=> (ctrl.pending_op = "WritePage")
    /\ ctrl.pending_op \in {"None", "ErasePage"}
          => ctrl.read_buf = NoBuf /\ ctrl.write_buf = NoBuf
    /\ ~(ctrl.read_buf # NoBuf /\ ctrl.write_buf # NoBuf)
    /\ ctrl.read_buf # NoBuf => ctrl.read_buf = flight.buf
    /\ ctrl.write_buf # NoBuf => ctrl.write_buf = flight.buf

\* A write in flight as the second operation: the write slot is full and
\* the read slot is empty.
C16_Witness ==
    /\ Len(hist) = 2
    /\ ctrl.pending_op = "WritePage"
    /\ ctrl.write_buf # NoBuf
    /\ ctrl.read_buf = NoBuf
    /\ cb = NoCb

\* The page held by the PAGE_SIZE / 4 SRAM words from word `first` on.
SramPage(sram, first) ==
    [k \in 1..PAGE_SIZE |->
        LET w == sram[first + ((k - 1) \div 4) + 1]
            j == (k - 1) % 4
        IN CASE j = 0 -> w.lo % 256
             [] j = 1 -> (w.lo \div 256) % 256
             [] j = 2 -> w.hi % 256
             [] j = 3 -> (w.hi \div 256) % 256]

\* A read completion that found dlen = PAGE_SIZE and invoked read_complete.
ReadDelivered ==
    /\ Completed
    /\ last.op = "ReadPage"
    /\ last.dlen = PAGE_SIZE
    /\ last.cb # NoCb

\* C17 as stated: the page a read completion hands to read_complete is the
\* one held by SRAM words 2 onward, where a write places its payload.
C17_DecodedFromPayloadOffset ==
    ReadDelivered => last.cb.buf.data = SramPage(regs.sram, 2)

\* C17 amended: the page a read completion hands to read_complete is the one
\* held by SRAM words 0 .. PAGE_SIZE / 4 - 1, in the buffer the caller
\* handed in; a write places its payload from word 2 on.
C17_DecodedFromWordZero ==
    /\ ReadDelivered
          => /\ last.cb.buf.data = SramPage(regs.sram, 0)
             /\ last.cb.buf.id = last.flight.buf.id
             /\ HasEv(last.log, Ev("rd", "sram..", 0))
    /\ (last.call = "write_page" /\ last.res = "Ok")
          => /\ SramPage(regs.sram, 2) = last.arg.data
             /\ HasEv(last.log, Ev("wr", "sram..", 2))

\* A read completed over a frame whose words 0.. hold the page of
\* descending bytes: read_complete gets that page.
C17_Witness ==
    /\ ReadDelivered
    /\ SramPage(regs.sram, 0) = PatDec
    /\ last.cb.buf.data = PatDec
    /\ last.flight.buf.data # PatDec
    /\ last.cb.result = "Ok"

\* The register writes that build the request frame of an operation.
FrameWrites(op) ==
    {Ev("wr", "sram", 0), Ev("wr", "sram", 1), Ev("wr", "dlen", 0), Ev("wr", "cmd", 0),
     Ev("wr", "target_user", 0), Ev("wr", "target_user_valid", 0)}
      \cup (IF op = "WritePage" THEN {Ev("wr", "sram..", 2)} ELSE {})

\* An accepted call found the execute bit clear, and among its accesses
\* the write that sets the execute bit comes after every write of the frame
\* and is the last register write.
C18_ExecuteLast ==
    (last'.call \in AdmissionCalls /\ last'.res = "Ok")
    => /\ regs.execute = 0
       /\ LET x == Pos(last'.log, Ev("wr", "execute", 1))
          IN /\ x > 0
             /\ \A e \in FrameWrites(last'.op) :
                   0 < Pos(last'.log, e) /\ Pos(last'.log, e) < x
             /\ \A k \in (x + 1)..Len(last'.log) : last'.log[k].k # "wr"

\* While the execute bit is set and the remote has not answered with done,
\* the registers hold the frame of the operation in flight.
C18_FrameWhileExecute ==
    (regs.execute = 1 /\ ~served)
    => /\ flight.op \in FlashOperation
       /\ flight.op = ctrl.pending_op
       /\ regs.sram[1] = U32(flight.page)
       /\ regs.sram[2] = U32(PAGE_SIZE)
       /\ flight.op = "WritePage" => SramPage(regs.sram, 2) = flight.buf.data
       /\ regs.dlen = (IF flight.op = "WritePage" THEN 8 + PAGE_SIZE ELSE 8)
       /\ regs.cmd = OpCode(flight.op)
       /\ regs.target_user = 1
       /\ regs.target_user_valid = 1

\* C18: start_mailbox_op sets the execute bit only after it has written
\* the frame words, the data length, the command, the target user and its
\* valid flag, and the bit is clear until then; so whenever the execute bit
\* reads 1 and the remote has not yet answered, the mailbox holds the
\* complete frame of the operation just accepted.
C18_FrameBeforeExecute ==
    /\ [][C18_ExecuteLast]_vars
    /\ []C18_FrameWhileExecute

\* The second operation, a write, accepted and armed over the registers
\* the first exchange left behind.
C18_Witness ==
    /\ Len(hist) = 2
    /\ last.call = "write_page"
    /\ last.res = "Ok"
    /\ regs.execute = 1
    /\ ~served
    /\ Pos(last.log, Ev("wr", "sram..", 2)) < Pos(last.log, Ev("wr", "execute", 1))
    /\ Pos(last.log, Ev("wr", "sram..", 2)) > 0

\* The position of the first register write in log (0: none).
FirstWrite(log) ==
    IF Accesses(log, "wr")
    THEN CHOOSE k \in 1..Len(log) :
            log[k].k = "wr" /\ \A j \in 1..(k - 1) : log[j].k # "wr"
    ELSE 0

\* A handler that writes mailbox registers owns the hardware lock when it
\* writes: it owned the lock when it was entered, or it read the lock
\* register as 0 before its first write; it writes nothing after the write
\* that clears the execute bit, which releases the lock; and it reads the
\* lock register only when it does not own the lock.
WritesAsOwner ==
    LET log == last'.log
        rd == Pos(log, Ev("rd", "lock", 0))
        rel == Pos(log, Ev("wr", "execute", 0))
    IN /\ Accesses(log, "wr")
             => /\ \/ regs.lock = "mcu" /\ rd = 0
                   \/ /\ 0 < rd
                      /\ rd < FirstWrite(log)
                      /\ LockReadValue(regs) = 0
                /\ rel > 0 => \A k \in (rel + 1)..Len(log) : log[k].k # "wr"
                /\ regs.lock # "peer"
       /\ rd > 0 => regs.lock # "mcu"

\* C19 as stated: init and the flash operations write mailbox registers
\* only while the controller owns the hardware lock (its own read of the
\* lock register returned 0 and it has not released since), never while a
\* peer owns it, and never read the lock register while owning it.
C19_OnlyOwnerWrites == [][WritesAsOwner]_vars

\* The same for every handler but init: the flash operations and the
\* deferred call write registers only as the owner of the lock.
C19_OnlyOwnerWritesAfterInit == [][last'.call # "init" => WritesAsOwner]_vars

\* init() has run while a peer held the lock, and has written the data
\* length and the execute bit.
C19_Witness ==
    /\ last.call = "init"
    /\ regs.lock = "peer"
    /\ last.log = <<Ev("rd", "lock", 0), Ev("wr", "dlen", 0), Ev("wr", "execute", 0)>>
    /\ regs.dlen = MboxSramWords * 4

\* In a run of the controller a deferred call is requested only while an
\* operation is in flight.
DeferredOnlyInFlight ==
    ctrl.deferred_call => (ctrl.mailbox_locked /\ ctrl.pending_op # "None")

\* C20: a deferred call that finds mailbox_locked false or pending_op
\* empty does nothing: it reads and writes no register, invokes no
\* callback, requests no further deferred call, and leaves pending_op,
\* mailbox_locked, both slots and the registers as they were.
C20_StaleReentryNoOp ==
    [][(/\ last'.call = "handle_deferred_call"
        /\ (~ctrl.mailbox_locked \/ ctrl.pending_op = "None"))
       => (/\ last'.log = <<>>
           /\ last'.cb = NoCb
           /\ cb' = cb
           /\ regs' = regs
           /\ ctrl' = [ctrl EXCEPT !.deferred_call = FALSE]
           /\ dropped' = dropped
           /\ client_bufs' = client_bufs
           /\ ~panicked')]_vars

\* A deferred call taken with no operation pending while target_status
\* still shows done and a client is attached.
C20_Witness ==
    /\ last.call = "handle_deferred_call"
    /\ last.log = <<>>
    /\ ctrl.pending_op = "None"
    /\ ~ctrl.mailbox_locked
    /\ ~ctrl.deferred_call
    /\ ctrl.flash_client
    /\ regs.target_status = 16 + 2
    /\ cb = NoCb

\* While an operation is in flight a deferred call is requested and the
\* controller has not panicked, so the scheduler will run the handler.
C21_Requested ==
    (ctrl.pending_op # "None" /\ ctrl.mailbox_locked)
       => ctrl.deferred_call /\ ~panicked

\* An accepted admission call requests the deferred call as its last
\* access, from inside a callback as well, where the callback goes on.
C21_SetByAccept ==
    (last'.call \in AdmissionCalls /\ last'.res = "Ok")
       => /\ ctrl'.deferred_call
          /\ Len(last'.log) > 0
          /\ last'.log[Len(last'.log)] = Ev("ctl", "deferred_call", 1)
          /\ cb' = cb

\* The request is withdrawn only by a deferred call that took the done
\* branch; a deferred call that read done as 0 leaves it set, and so does
\* the return of a callback.
C21_KeptUntilDone ==
    /\ (ctrl.deferred_call /\ ~ctrl'.deferred_call)
          => last'.call = "handle_deferred_call" /\ last'.done
    /\ (last'.call = "handle_deferred_call" /\ ~last'.done) => ctrl'.deferred_call
    /\ last'.call = "callback_return" => ctrl'.deferred_call = ctrl.deferred_call

\* C21: in every state in which an operation is in flight (pending_op set
\* and mailbox_locked true) a deferred call is requested; the request is
\* made by the accepting call, also when that call is made from inside a
\* completion callback while the deferred-call handler is still running,
\* it is renewed by every deferred call that reads done as 0, and it is
\* withdrawn only by the deferred call that completes the operation.
C21_NoLostWakeup ==
    /\ []C21_Requested
    /\ [][C21_SetByAccept /\ C21_KeptUntilDone]_vars

\* The callback of the first operation has returned after it started the
\* second one: the second is in flight and its deferred call is requested.
C21_Witness ==
    /\ last.call = "callback_return"
    /\ Len(hist) = 2
    /\ flight.nested
    /\ ctrl.pending_op # "None"
    /\ ctrl.mailbox_locked
    /\ ctrl.deferred_call
    /\ cb = NoCb

\* A completion is taken by a deferred call that read the done bit as 1.
C22_DoneReadAtCompletion ==
    Completed => DoneBit(last.ts) = 1 /\ HasEv(last.log, Ev("rd", "target_status", 0))

\* C22 as stated: a deferred call completes an operation, and invokes its
\* callback, only after the remote has set the done bit in answer to the
\* execute of that operation; the done bit and the status code the previous
\* operation left in target_status never complete a later operation.
C22_CompletedOnOwnDone ==
    (Completed /\ last.cb # NoCb) => served

\* The second operation, accepted from inside the callback of the first
\* while target_status still held the first one's done bit, has been
\* completed, and its callback invoked, before the remote answered it.
C22_Witness ==
    /\ Completed
    /\ ~served
    /\ Len(hist) = 2
    /\ last.flight.nested
    /\ hist[2].cbs = 1
    /\ last.cb.kind = CallbackOf(last.flight.op)
    /\ DoneBit(last.ts) = 1

\* A completion observed with no client attached invokes no callback and
\* leaves the controller Idle: pending_op and mailbox_locked cleared, both
\* slots empty, the execute bit cleared and the hardware lock released.
C23_CompletionWithoutClient ==
    (Completed /\ ~last.client)
       => /\ DoneBit(last.ts) = 1
          /\ ctrl.pending_op = "None"
          /\ ~ctrl.mailbox_locked
          /\ ctrl.read_buf = NoBuf
          /\ ctrl.write_buf = NoBuf
          /\ regs.execute = 0
          /\ regs.lock # "mcu"
          /\ last.cb = NoCb
          /\ cb = NoCb
          /\ hist[Len(hist)].cbs = 0
          /\ ~panicked

\* With no client attached an admission call with a valid page made while
\* the controller is Idle and the lock register reads 0 is accepted.
C23_AcceptedWithoutClient ==
    (/\ ~ctrl.flash_client
     /\ Idle
     /\ LockReadValue(regs) = 0
     /\ last'.call \in AdmissionCalls
     /\ last'.page < FLASH_MAX_PAGES)
    => /\ last'.res = "Ok"
       /\ ctrl'.pending_op = last'.op
       /\ ctrl'.mailbox_locked
       /\ regs'.execute = 1

\* C23: while no client has been attached with set_client, operations are
\* accepted as usual, and a deferred call that observes done = 1 invokes no
\* callback and returns the controller to Idle (pending_op cleared, execute
\* bit cleared, mailbox_locked false, the slot of the operation emptied), so
\* that the next operation is accepted.
C23_NoClientStillCompletes ==
    /\ []C23_CompletionWithoutClient
    /\ [][C23_AcceptedWithoutClient]_vars

\* A second operation accepted, still without a client, after the first one,
\* a read or a write, was completed with no client attached and no callback.
C23_Witness ==
    /\ Len(hist) = 2
    /\ hist[1].done
    /\ ~hist[1].client
    /\ hist[1].cbs = 0
    /\ dropped # {}
    /\ ~ctrl.flash_client
    /\ last.call \in AdmissionCalls
    /\ last.res = "Ok"
    /\ ctrl.pending_op # "None"
====
